---- MODULE Spec2Model ----
(***************************************************************************)
(* Verification model of sqlhandler: the metadata reflection/caching layer *)
(* (Database, Schemas/Schema accessors, ObjectName/SchemaName), the older  *)
(* DatabaseHandler namespace, the MetadataCacheHelper time-to-live cache   *)
(* the transaction helpers (Transaction, Alchemy.resolve_tran,            *)
(* Session.execute), the model helpers (Model.update, Model.clone), the    *)
(* query and frame helpers (Query.vector, orm_to_frame, frame_to_table)    *)
(* and the Relationship builder.                                           *)
(***************************************************************************)
EXTENDS Integers, Sequences, FiniteSets, TLC

(***************************************************************************)
(* Bounds                                                                  *)
(***************************************************************************)
NumSchemas == 2
NumStems == 1
MaxDef == 2
MaxMeta == 2
MaxLive == 1

None == 0
SchemaIds == 1..NumSchemas
Stems == 1..NumStems
Defs == 1..MaxDef
\* Database.default_schema: the inspector's default schema name
default_schema == 1

VARIABLES
    live,       \* the live database: <<schema, stem>> -> [kind, def]
    meta,       \* Database.meta.tables, an insertion-ordered dict, as a sequence of tables
    cache,      \* Database.cache[Database.name], the stored copy of the metadata
    tables,     \* Database.tables: schema -> Schema accessor
    views,      \* Database.views: schema -> Schema accessor
    cache_metadata, \* Sql.CACHE_METADATA of the running program
    err,        \* the exception the last operation raised, or "ok"
    last        \* the last call of a method of Database and its argument ("other": none;
                \* "hit", "miss", "error": Database.__init__ and what the cache gave it)

\* the older DatabaseHandler (database.py)
VARIABLES
    orm,        \* DatabaseHandler.orm: schema name -> Schema namespace of mapped classes
    objects,    \* DatabaseHandler.objects: schema name -> Schema namespace of tables
    lookup      \* the last attribute lookup on a Schema namespace and its outcome

\* MetadataCacheHelper (utils.py)
VARIABLES
    today,        \* DateTime.today(), in days
    cache_file,   \* MetadataCacheHelper.cache_file.contents
    helper_cache, \* MetadataCacheHelper.cache
    database      \* MetadataCacheHelper.database: the entry whose metadata is served

\* Transaction / Alchemy and their session
VARIABLES
    pending,    \* work in the session that is not committed
    durable,    \* work that was committed
    in_block,   \* a with-block of the context manager is open
    autocommit, \* Alchemy.autocommit
    calls,      \* the commit/rollback calls the last operation made on the session
    tran        \* what the last transaction operation was given: [ex_type, force, asked,
                \* answer] and the work that was pending when it began (had)

\* calls of the model, query, frame and relationship helpers
VARIABLES
    self,       \* the object a method is called on
    arg,        \* the arguments of the last call
    ret         \* what the last call returned or raised

dbvars == <<live, meta, cache, tables, views, cache_metadata, err, last>>
hvars == <<orm, objects, lookup>>
cvars == <<today, cache_file, helper_cache, database>>
tvars == <<pending, durable, in_block, autocommit, calls, tran>>
pvars == <<self, arg, ret>>
vars == <<dbvars, hvars, cvars, tvars, pvars>>

LiveKeys == SchemaIds \X Stems
NoObject == [kind |-> "none", def |-> 0]
NoTable == [name |-> 0, schema |-> 0, def |-> 0]
\* a mapped class is identified by the key of the table it maps
NoModel == <<0, 0>>

(***************************************************************************)
(* database/name.py                                                        *)
(***************************************************************************)
\* SchemaName.__init__: a missing name resolves to the default
SchemaName(name, default) ==
    [name |-> IF name # None THEN name ELSE default,
     default |-> default,
     is_default |-> (name = None \/ name = default)]

\* ObjectName.__init__; id is the identity of the constructed object
ObjectName(stem, schema, id) ==
    [stem |-> stem, schema |-> schema.name, name |-> <<schema.name, stem>>, id |-> id]

\* ObjectName.__eq__
ObjectName__eq__(a, b) == a.name = b.name

\* ObjectName.__hash__ : the identity of the object
ObjectName__hash__(a) == a.id

\* membership of an ObjectName in a python set: an element is found only
\* when its hash equals the probe's hash and __eq__ agrees
SetContains(S, x) ==
    \E m \in S : ObjectName__hash__(m) = ObjectName__hash__(x) /\ ObjectName__eq__(m, x)

\* identity of the n-th name object built for a listing; 0 is kept for the
\* object built by the caller that probes the listing
NameId(schema, stem, kind) ==
    1 + (IF kind = "view" THEN 1 ELSE 0) + 2 * ((stem - 1) + NumStems * (schema - 1))
ProbeId == 0

(***************************************************************************)
(* The objects the methods of Database work on.  A database object is the  *)
(* record [lv, meta, cache, tables, views, err]; every method is an        *)
(* operator from such a record to the record after the call.  err # "ok"   *)
(* means the call raised and the rest of the method did not run.           *)
(***************************************************************************)
Ok(d) == d.err = "ok"
Raise(d, e) == [d EXCEPT !.err = e]

\* MetaData key of a table (_get_table_key): schema-qualified name
Key(t) == <<t.schema, t.name>>

\* MetaData.__contains__
MetaContains(m, t) == \E i \in 1..Len(m) : Key(m[i]) = Key(t)

\* MetaData.remove
MetaRemove(m, t) == SelectSeq(m, LAMBDA x : Key(x) # Key(t))

\* a Schema accessor: the names set on it (ObjectProxy attributes) and its
\* _registry of loaded models (stem -> the table the model maps)
AbsentSchema == [present |-> FALSE, names |-> {}, registry |-> [s \in Stems |-> NoModel]]
EmptySchema == [present |-> TRUE, names |-> {}, registry |-> [s \in Stems |-> NoModel]]
\* Schemas(database=self): an accessor without any schema
EmptySchemas == [s \in SchemaIds |-> AbsentSchema]

\* Database.schema_names
schema_names == {SchemaName(s, default_schema) : s \in SchemaIds}

\* Database.table_names
table_names(lv, schema) ==
    {ObjectName(st, schema, NameId(schema.name, st, "table")) :
        st \in {x \in Stems : lv[<<schema.name, x>>].kind = "table"}}

\* Database.view_names
view_names(lv, schema) ==
    {ObjectName(st, schema, NameId(schema.name, st, "view")) :
        st \in {x \in Stems : lv[<<schema.name, x>>].kind = "view"}}

\* Database._name_from_table
_name_from_table(table) ==
    ObjectName(table.name, SchemaName(table.schema, default_schema), ProbeId)

\* Database._cache_metadata
_cache_metadata(d) ==
    IF cache_metadata THEN [d EXCEPT !.cache = d.meta] ELSE d

\* Database._remove_object_from_metadata
_remove_object_from_metadata(d, table) ==
    _cache_metadata([d EXCEPT !.meta = MetaRemove(d.meta, table)])

\* one round of the loop of Database._remove_object_from_accessors
RemoveFromAccessor(acc, name) ==
    IF ~acc[name.schema].present THEN [acc |-> acc, err |-> "AttributeError"]
    ELSE IF acc[name.schema].registry[name.stem] = NoModel THEN [acc |-> acc, err |-> "KeyError"]
    ELSE [acc |-> [acc EXCEPT ![name.schema].registry[name.stem] = NoModel,
                              ![name.schema].names = @ \ {name.stem}],
          err |-> "ok"]

\* Database._remove_object_from_accessors
_remove_object_from_accessors(d, table) ==
    LET name == _name_from_table(table)
        r1 == RemoveFromAccessor(d.tables, name)
        r2 == RemoveFromAccessor(d.views, name)
    IN  IF r1.err # "ok" THEN Raise(d, r1.err)
        ELSE IF r2.err # "ok" THEN Raise([d EXCEPT !.tables = r1.acc], r2.err)
        ELSE [d EXCEPT !.tables = r1.acc, !.views = r2.acc]

\* Database._remove_object_if_exists
_remove_object_if_exists(d, table) ==
    LET d1 == IF MetaContains(d.meta, table) THEN _remove_object_from_metadata(d, table) ELSE d
    IN  _remove_object_from_accessors(d1, table)

\* the first table of the metadata, in iteration order, for which the
\* staleness test of _remove_stale_metadata_objects is true; 0 if none
FirstStale(m, db_names) ==
    LET stale == {i \in 1..Len(m) : ~SetContains(db_names, _name_from_table(m[i]))}
    IN  IF stale = {} THEN 0 ELSE CHOOSE i \in stale : \A j \in stale : i <= j

\* Database._remove_stale_metadata_objects: the loop runs over the live
\* dict meta.tables; removing an entry makes the next step of the iteration
\* raise RuntimeError (dictionary changed size during iteration)
_remove_stale_metadata_objects(d) ==
    LET db_names == UNION {table_names(d.lv, sc) \cup view_names(d.lv, sc) : sc \in schema_names}
        i == FirstStale(d.meta, db_names)
        d1 == _remove_object_if_exists(d, d.meta[i])
    IN  IF i = 0 THEN d
        ELSE IF ~Ok(d1) THEN d1
        ELSE Raise(d1, "RuntimeError")

\* Database._prepare_schema_accessors
_prepare_schema_accessors(d) ==
    LET prep(acc) == [s \in SchemaIds |-> IF acc[s].present THEN acc[s] ELSE EmptySchema]
    IN  [d EXCEPT !.tables = prep(d.tables), !.views = prep(d.views)]

\* Database._prepare_object_accessors
_prepare_object_accessors(d, schema) ==
    LET s == schema.name
        tn == {n.stem : n \in table_names(d.lv, schema)}
        vn == {n.stem : n \in view_names(d.lv, schema)}
    IN  IF ~d.tables[s].present \/ ~d.views[s].present THEN Raise(d, "AttributeError")
        ELSE [d EXCEPT !.tables[s].names = @ \cup tn, !.views[s].names = @ \cup vn]

RECURSIVE PrepareObjectAccessorsUpTo(_, _)
PrepareObjectAccessorsUpTo(d, n) ==
    IF n = 0 \/ ~Ok(d) THEN d
    ELSE _prepare_object_accessors(PrepareObjectAccessorsUpTo(d, n - 1), SchemaName(n, default_schema))

\* Database._prepare_accessors
_prepare_accessors(d) ==
    PrepareObjectAccessorsUpTo(_prepare_schema_accessors(d), NumSchemas)

\* Database._sync_with_db
_sync_with_db(d) ==
    LET d1 == _remove_stale_metadata_objects(d)
    IN  IF Ok(d1) THEN _prepare_accessors(d1) ELSE d1

\* Database._reflect_object: Table(stem, meta, schema=..., autoload=True).
\* A view has no primary key and is given the __pk__ column, which
\* sqlalchemy refuses for a table the metadata already defines.
_reflect_object(d, name) ==
    LET obj == d.lv[name.name]
        t == [name |-> name.stem, schema |-> name.schema, def |-> obj.def]
    IN  IF obj.kind = "none" THEN Raise(d, "NoSuchTableError")
        ELSE IF MetaContains(d.meta, t)
             THEN IF obj.kind = "table" THEN d ELSE Raise(d, "InvalidRequestError")
        ELSE [d EXCEPT !.meta = Append(@, t)]

\* automap.classes by table name: the classes are keyed by the bare table
\* name, a later table of the metadata replaces an earlier one of that name
ModelsByStem(m) ==
    [st \in Stems |->
        LET idx == {i \in 1..Len(m) : m[i].name = st}
        IN  IF idx = {} THEN NoModel ELSE Key(m[CHOOSE i \in idx : \A j \in idx : j <= i])]

\* Database._autoload_schema
_autoload_schema(d, schema) ==
    LET s == schema.name
        models == ModelsByStem(d.meta)
        d1 == IF \E st \in Stems : models[st] # NoModel THEN _prepare_object_accessors(d, schema) ELSE d
        tn == {n.stem : n \in table_names(d.lv, schema)}
        vn == {n.stem : n \in view_names(d.lv, schema)}
        upd(reg, stems) == [st \in Stems |-> IF st \in stems /\ models[st] # NoModel THEN models[st] ELSE reg[st]]
    IN  IF ~Ok(d1) THEN d1
        ELSE IF ~d1.tables[s].present \/ ~d1.views[s].present THEN Raise(d1, "AttributeError")
        ELSE [d1 EXCEPT !.tables[s].registry = upd(@, tn), !.views[s].registry = upd(@, vn)]

\* Database._reflect_object_with_autoload
_reflect_object_with_autoload(d, name) ==
    LET d1 == _reflect_object(d, name)
    IN  IF Ok(d1) THEN _autoload_schema(d1, SchemaName(name.schema, default_schema)) ELSE d1

\* Database.create_table: table.create() then reflection
create_table(d, table) ==
    LET name == _name_from_table(table)
        d1 == [d EXCEPT !.lv[name.name] = [kind |-> "table", def |-> table.def]]
    IN  IF d.lv[name.name].kind # "none" THEN Raise(d, "OperationalError")
        ELSE _reflect_object_with_autoload(d1, name)

\* Database.drop_table: table.drop() then removal
drop_table(d, table) ==
    LET name == _name_from_table(table)
        d1 == [d EXCEPT !.lv[name.name] = NoObject]
    IN  IF d.lv[name.name].kind # "table" THEN Raise(d, "OperationalError")
        ELSE _remove_object_if_exists(d1, table)

\* Database.refresh_table
refresh_table(d, table) ==
    LET d1 == _remove_object_if_exists(d, table)
    IN  IF Ok(d1) THEN _reflect_object_with_autoload(d1, _name_from_table(table)) ELSE d1

_reset_accessors_Keeps(d) == d

\* Database._reset_accessors
_reset_accessors(d) ==
    [d EXCEPT !.tables = EmptySchemas, !.views = EmptySchemas]

\* Database.clear
clear(d) ==
    _sync_with_db(_reset_accessors(_cache_metadata([d EXCEPT !.meta = <<>>])))

\* Database._get_metadata: cache.setdefault(name, Metadata()) returns the
\* stored metadata ("hit"), stores a new one when the entry is gone
\* ("miss"), and a new unstored one is used when the cache raises ("error")
_get_metadata(d, how) ==
    IF ~cache_metadata THEN [d EXCEPT !.meta = <<>>]
    ELSE IF how = "hit" THEN [d EXCEPT !.meta = d.cache]
    ELSE IF how = "miss" THEN [d EXCEPT !.meta = <<>>, !.cache = <<>>]
    ELSE [d EXCEPT !.meta = <<>>]

\* Database.__init__
Database__init__(d, how) ==
    _sync_with_db([_get_metadata(d, how) EXCEPT !.tables = EmptySchemas, !.views = EmptySchemas, !.err = "ok"])

\* Calling the ObjectProxy found at accessor[schema][stem]: the model of the
\* registry, loaded by reflection when it is not there yet
ObjectProxy__call__(d, schema, stem) ==
    LET sc == SchemaName(schema, default_schema)
    IN  IF ~d.tables[sc.name].present \/ stem \notin d.tables[sc.name].names THEN Raise(d, "AttributeError")
        ELSE IF d.tables[sc.name].registry[stem] # NoModel THEN d
        ELSE _reflect_object_with_autoload(d, ObjectName(stem, sc, ProbeId))

Schemas__getitem__Literal(acc, name) ==
    IF name # None /\ acc[name].present
    THEN [raised |-> "None", schema |-> name]
    ELSE [raised |-> "AttributeError", schema |-> None]

\* Schemas.__getitem__: the Schema object the accessor gives for a key, named
\* by the place it has on the accessor; None is looked up as the attribute
\* called SchemaName(None, default_schema).name
Schemas__getitem__(acc, name) ==
    LET attr == IF name = None THEN SchemaName(name, default_schema).name ELSE name
    IN  IF acc[attr].present
        THEN [raised |-> "None", schema |-> attr]
        ELSE [raised |-> "AttributeError", schema |-> None]

\* a pandas frame: [index |-> [name, vals], columns, rows], one value per
\* column in each row; an index without a name has the name "None"
RangeIndex(n) == [name |-> "None", vals |-> [i \in 1..n |-> i - 1]]

\* DataFrame.reset_index: with drop the index is replaced by 0..n-1, without
\* it the index is also inserted as the first column
reset_index(f, drop) ==
    IF drop THEN [f EXCEPT !.index = RangeIndex(Len(f.rows))]
    ELSE [index |-> RangeIndex(Len(f.rows)),
          columns |-> <<IF f.index.name = "None" THEN "index" ELSE f.index.name>> \o f.columns,
          rows |-> [i \in 1..Len(f.rows) |-> <<f.index.vals[i]>> \o f.rows[i]]]

\* DataFrame.set_index(key): the column leaves the columns and is the index
set_index(f, key) ==
    LET k == CHOOSE i \in 1..Len(f.columns) : f.columns[i] = key
        Without(row) == SubSeq(row, 1, k - 1) \o SubSeq(row, k + 1, Len(row))
    IN  [index |-> [name |-> key, vals |-> [i \in 1..Len(f.rows) |-> f.rows[i][k]]],
         columns |-> Without(f.columns),
         rows |-> [i \in 1..Len(f.rows) |-> Without(f.rows[i])]]

\* Sql.frame_to_table, the part that prepares the frame: the frame handed to
\* to_sql, the name of its primary key and whether that column is typed INT
PrepareFrame(dataframe, primary_key) ==
    IF primary_key = "None"
    THEN LET f == reset_index(dataframe, FALSE)
         IN  [frame |-> f, primary_key |-> f.columns[1], int_pk |-> FALSE]
    ELSE IF \E i \in 1..Len(dataframe.columns) : dataframe.columns[i] = primary_key
    THEN [frame |-> reset_index(set_index(dataframe, primary_key), FALSE),
          primary_key |-> primary_key, int_pk |-> FALSE]
    ELSE LET f0 == reset_index(dataframe, TRUE)
             f1 == [f0 EXCEPT !.index = [name |-> primary_key,
                                         vals |-> [i \in 1..Len(f0.rows) |-> f0.index.vals[i] + 1]]]
         IN  [frame |-> reset_index(f1, FALSE), primary_key |-> primary_key, int_pk |-> TRUE]

\* the frames callers load and the primary_key arguments they pass
Frames ==
    {[index |-> [name |-> "None", vals |-> <<7, 5>>], columns |-> <<"a", "id">>,
      rows |-> <<<<1, 9>>, <<2, 8>>>>],
     [index |-> [name |-> "None", vals |-> <<0, 1>>], columns |-> <<"a">>,
      rows |-> <<<<2>>, <<1>>>>]}
PrimaryKeys == {"None", "id"}
\* the definition of the table to_sql creates for a frame
FrameDef(dataframe) == Len(dataframe.columns)

\* Sql.frame_to_table, the part that touches the database object:
\* to_sql creates the table, then _sync_with_db and the accessor lookup
frame_to_table(d, table, schema, df) ==
    LET sc == SchemaName(schema, default_schema)
        d1 == [d EXCEPT !.lv[<<sc.name, table>>] = [kind |-> "table", def |-> df]]
        d2 == _sync_with_db(d1)
    IN  IF d.lv[<<sc.name, table>>].kind # "none" THEN Raise(d, "ValueError")
        ELSE IF Ok(d2) THEN ObjectProxy__call__(d2, schema, table) ELSE d2

(***************************************************************************)
(* Values of the variables a specification does not use                    *)
(***************************************************************************)
NoSchemaNs == [present |-> FALSE, names |-> {}]
NoLookup == [schema |-> 0, attr |-> 0, was_present |-> FALSE, reflected |-> FALSE, outcome |-> "none"]
NoCache == [max_age |-> 0, dob |-> 0, databases |-> {}]
NoDataBase == [name |-> 0, born |-> 0]
NoTran == [ex_type |-> "None", force |-> FALSE, asked |-> FALSE, answer |-> <<>>, had |-> {}]

DbIdle ==
    /\ live = [k \in LiveKeys |-> NoObject]
    /\ meta = <<>> /\ cache = <<>>
    /\ tables = EmptySchemas /\ views = EmptySchemas
    /\ cache_metadata = TRUE
    /\ err = "ok"
    /\ last = [op |-> "other", table |-> <<0, 0>>]

HIdle ==
    /\ orm = [s \in SchemaIds |-> NoSchemaNs]
    /\ objects = [s \in SchemaIds |-> NoSchemaNs]
    /\ lookup = NoLookup

CIdle ==
    /\ today = 0
    /\ cache_file = NoCache
    /\ helper_cache = NoCache
    /\ database = NoDataBase

PIdle == self = <<>> /\ arg = <<>> /\ ret = <<>>

TIdle ==
    /\ pending = {} /\ durable = {}
    /\ in_block = FALSE /\ autocommit = FALSE
    /\ calls = <<>>
    /\ tran = NoTran

(***************************************************************************)
(* The state machine of one Database object and the database it reflects   *)
(***************************************************************************)
Cur == [lv |-> live, meta |-> meta, cache |-> cache, tables |-> tables, views |-> views, err |-> "ok"]

BecomeWith(d, op, t, a, r) ==
    /\ live' = d.lv
    /\ meta' = d.meta
    /\ cache' = d.cache
    /\ tables' = d.tables
    /\ views' = d.views
    /\ err' = d.err
    /\ last' = [op |-> op, table |-> Key(t)]
    /\ arg' = a
    /\ ret' = r
    /\ UNCHANGED <<cache_metadata, hvars, cvars, tvars, self>>

Become(d, op, t) == BecomeWith(d, op, t, <<>>, <<>>)

NumLive(lv) == Cardinality({k \in LiveKeys : lv[k].kind # "none"})

LiveObjects == {NoObject} \cup [kind : {"table", "view"}, def : Defs]
TableObjects == [name : Stems, schema : SchemaIds, def : Defs]

InMeta(m) == {m[i] : i \in 1..Len(m)}

\* a model class is declared: its Table enters the metadata, replacing a
\* table of the same key (Table.__new__ with is_declarative)
DeclareModel ==
    \E t \in TableObjects :
        /\ err = "ok"
        /\ Len(MetaRemove(meta, t)) < MaxMeta
        /\ Become([Cur EXCEPT !.meta = Append(MetaRemove(meta, t), t)], "other", NoTable)

\* Session.execute of a DDL statement: an object of the database is
\* created, dropped or redefined behind the back of the metadata
ExecuteDDL ==
    \E k \in LiveKeys, o \in LiveObjects :
        /\ err = "ok"
        /\ o # live[k]
        /\ NumLive([live EXCEPT ![k] = o]) <= MaxLive
        /\ Become([Cur EXCEPT !.lv[k] = o], "other", NoTable)

CreateTable ==
    \E t \in InMeta(meta) :
        /\ err = "ok"
        /\ NumLive(live) < MaxLive \/ live[Key(t)].kind # "none"
        /\ Become(create_table(Cur, t), "create_table", t)

DropTable ==
    \E t \in InMeta(meta) :
        /\ err = "ok"
        /\ Become(drop_table(Cur, t), "drop_table", t)

RefreshTable ==
    \E t \in InMeta(meta) :
        /\ err = "ok"
        /\ Become(refresh_table(Cur, t), "refresh_table", t)

Clear ==
    /\ err = "ok"
    /\ Become(clear(Cur), "clear", NoTable)

FrameToTable ==
    \E st \in Stems, sc \in SchemaIds \cup {None},
       dataframe \in Frames, primary_key \in PrimaryKeys :
        /\ err = "ok"
        /\ NumLive(live) < MaxLive \/ live[<<SchemaName(sc, default_schema).name, st>>].kind # "none"
        /\ LET df == FrameDef(dataframe)
               d == frame_to_table(Cur, st, sc, df)
           IN  BecomeWith(d, "frame_to_table",
                          [name |-> st, schema |-> SchemaName(sc, default_schema).name, def |-> df],
                          [dataframe |-> dataframe, primary_key |-> primary_key],
                          \* what to_sql was given, unless it refused an existing table
                          IF d.err = "ValueError" THEN <<>>
                          ELSE PrepareFrame(dataframe, primary_key))

\* sql.tables[name], looked up after an operation that built or changed the
\* accessors has returned
GetItem ==
    \E name \in SchemaIds \cup {None} :
        /\ err = "ok"
        /\ last.op \in {"create_table", "frame_to_table", "clear", "hit", "miss", "error"}
        /\ BecomeWith(Cur, "getitem", [name |-> last.table[2], schema |-> last.table[1]],
                      [name |-> name, after |-> last.op], Schemas__getitem__(tables, name))

\* the program is started again: a new Database object is built from the
\* stored cache and the database as it is now
Construct ==
    \E how \in {"hit", "miss", "error"} :
        Become(Database__init__(Cur, how), how, NoTable)

DbInit ==
    /\ cache_metadata \in BOOLEAN
    /\ live \in {lv \in [LiveKeys -> LiveObjects] : NumLive(lv) <= 1}
    /\ meta = <<>>
    /\ cache = <<>>
    /\ LET d == _prepare_accessors([lv |-> live, meta |-> <<>>, cache |-> <<>>,
                                    tables |-> EmptySchemas, views |-> EmptySchemas, err |-> "ok"])
       IN  tables = d.tables /\ views = d.views
    /\ err = "ok"
    /\ last = [op |-> "miss", table |-> Key(NoTable)]
    /\ HIdle /\ CIdle /\ TIdle /\ PIdle

DbNext ==
    \/ DeclareModel
    \/ ExecuteDDL
    \/ CreateTable
    \/ DropTable
    \/ RefreshTable
    \/ Clear
    \/ FrameToTable
    \/ Construct
    \/ GetItem

Spec == DbInit /\ [][DbNext]_vars

(***************************************************************************)
(* Properties of the Database object                                       *)
(***************************************************************************)
\* the live database lists the schema-qualified name of the table
Listed(lv, t) == lv[_name_from_table(t).name].kind # "none"

LiveStems(lv, s, kind) == {st \in Stems : lv[<<s, st>>].kind = kind}

SyncOps == {"hit", "miss", "error", "clear", "frame_to_table"}
SyncErrors == {"RuntimeError", "KeyError", "AttributeError"}

\* the metadata _sync_with_db is handed in the step that just happened
HeldBeforeSync(t) ==
    \/ last'.op = "hit" /\ cache_metadata /\ t \in InMeta(cache)
    \/ last'.op = "frame_to_table" /\ err' # "ValueError" /\ t \in InMeta(meta)

\* C1: _remove_stale_metadata_objects removes only stale entries: a table
\* of the cached metadata whose schema-qualified name the live database
\* still lists is still in the metadata, and named on an accessor of its
\* schema, after _sync_with_db has run.
C1_RemovesOnlyStale ==
    [][\A t \in TableObjects :
          (HeldBeforeSync(t) /\ Listed(live, t) /\ Listed(live', t)) =>
              /\ t \in InMeta(meta')
              /\ t.name \in tables'[t.schema].names \cup views'[t.schema].names]_vars

\* C2: after _sync_with_db (construction, clear, frame_to_table) the call
\* has completed without error, and every table remaining in the metadata
\* has a schema-qualified name the live database lists.
C2_SyncLeavesOnlyListed ==
    last.op \in SyncOps =>
        /\ err \notin SyncErrors
        /\ err = "ok" => \A t \in InMeta(meta) : Listed(live, t)

C6_DropRemovesEverywhere ==
    (last.op = "drop_table" /\ err # "OperationalError") =>
        /\ err = "ok"
        /\ \A t \in InMeta(meta) : Key(t) # last.table
        /\ cache_metadata => \A t \in InMeta(cache) : Key(t) # last.table
        /\ last.table[2] \notin tables[last.table[1]].names
        /\ last.table[2] \notin views[last.table[1]].names
        /\ tables[last.table[1]].registry[last.table[2]] = NoModel
        /\ views[last.table[1]].registry[last.table[2]] = NoModel

\* C7: after create_table(t) returns the table exists in the live database,
\* is in the metadata, and the model mapped to it is the one reachable at
\* tables[schema][name].
C7_CreateMakesReachable ==
    (last.op = "create_table" /\ err = "ok") =>
        /\ live[last.table].kind = "table"
        /\ \E t \in InMeta(meta) : Key(t) = last.table
        /\ last.table[2] \in tables[last.table[1]].names
        /\ tables[last.table[1]].registry[last.table[2]] = last.table

\* the columns of a frame by name
HasColumn(f, name) == \E i \in 1..Len(f.columns) : f.columns[i] = name
ColumnOf(f, name) == CHOOSE i \in 1..Len(f.columns) : f.columns[i] = name

\* C16: frame_to_table, unless to_sql refuses a table that exists, returns
\* having loaded the frame with exactly one primary-key column placed first:
\* the former index when primary_key is None, the named column with its
\* values unchanged when the frame has it, otherwise a new column of that name
\* holding 1..n in row order and typed INT; every original column and row is
\* loaded, and the table is reachable at tables[schema][table].
C16_FrameToTable ==
    (last.op = "frame_to_table" /\ err # "ValueError") =>
        LET f == arg.dataframe
            pk == arg.primary_key
            t == ret.frame
            n == Len(f.rows)
        IN  /\ err = "ok"
            /\ t.columns[1] = ret.primary_key
            /\ Cardinality({j \in 1..Len(t.columns) : t.columns[j] = ret.primary_key}) = 1
            /\ Len(t.rows) = n
            /\ pk = "None" => \A i \in 1..n : t.rows[i][1] = f.index.vals[i]
            /\ (pk # "None" /\ HasColumn(f, pk)) =>
                  /\ ret.primary_key = pk
                  /\ \A i \in 1..n : t.rows[i][1] = f.rows[i][ColumnOf(f, pk)]
            /\ (pk # "None" /\ ~HasColumn(f, pk)) =>
                  /\ ret.primary_key = pk /\ ret.int_pk
                  /\ \A i \in 1..n : t.rows[i][1] = i
            /\ \A k \in 1..Len(f.columns) :
                  /\ HasColumn(t, f.columns[k])
                  /\ \A i \in 1..n : t.rows[i][ColumnOf(t, f.columns[k])] = f.rows[i][k]
            /\ live[last.table].kind = "table"
            /\ last.table[2] \in tables[last.table[1]].names
            /\ tables[last.table[1]].registry[last.table[2]] = last.table

C8_RefreshReflectsAgain ==
    [][(last'.op = "refresh_table" /\ live[last'.table].kind # "none") =>
          /\ err' = "ok"
          /\ \E t \in InMeta(meta') : Key(t) = last'.table /\ t.def = live'[last'.table].def
          /\ {t \in InMeta(meta') : Key(t) # last'.table} = {t \in InMeta(meta) : Key(t) # last'.table}
          /\ live' = live]_vars

(***************************************************************************)
(* The older DatabaseHandler with its Database and Schema namespaces       *)
(* (database.py).  The namespace name of the schema None is "dbo", which   *)
(* is the schema default_schema of this model.                             *)
(***************************************************************************)
dbo == default_schema

\* the schema a reflection without schema reads: the default one
EffectiveSchema(schema) == IF schema = None THEN default_schema ELSE schema

\* MetaData.reflect(schema, views=True): the tables and views of the schema
\* that the metadata does not hold yet are added, by stems 1..n
RECURSIVE MetaReflectUpTo(_, _, _, _)
MetaReflectUpTo(m, lv, schema, n) ==
    IF n = 0 THEN m
    ELSE LET m1 == MetaReflectUpTo(m, lv, schema, n - 1)
             obj == lv[<<EffectiveSchema(schema), n>>]
             t == [name |-> n, schema |-> schema, def |-> obj.def]
         IN  IF obj.kind # "none" /\ ~MetaContains(m1, t) THEN Append(m1, t) ELSE m1

MetaReflect(m, lv, schema) == MetaReflectUpTo(m, lv, schema, NumStems)

\* Database._add_schema: a NEW Schema namespace is stored under the name
_add_schema(ns, name, tbls) ==
    [ns EXCEPT ![IF name = None THEN dbo ELSE name] = [present |-> TRUE, names |-> {t.name : t \in tbls}]]

\* DatabaseHandler.reflect; h is the record [lv, meta, cache, orm, objects, err]
reflect(h, schema) ==
    LET m1 == MetaReflect(h.meta, h.lv, schema)
        tbls == {t \in InMeta(m1) : t.schema = schema}
    IN  [h EXCEPT !.meta = m1,
                  !.objects = _add_schema(h.objects, schema, tbls),
                  !.orm = _add_schema(h.orm, schema, tbls),
                  !.cache = m1]

\* attr.startswith("_"): the private names are modelled by the name 0
StartsWithUnderscore(attr) == attr = 0
Attrs == Stems \cup {0}

\* Schema.__getattr__ of the Schema object S, which python calls when the
\* normal lookup of attr on S failed: reflection for a public name, then
\* the lookup on S itself again
Schema__getattr__(h, S, s, attr) ==
    LET h1 == IF ~StartsWithUnderscore(attr) THEN reflect(h, s) ELSE h
    IN  [h |-> h1,
         reflected |-> ~StartsWithUnderscore(attr),
         outcome |-> IF attr \in S.names THEN "found" ELSE "AttributeError"]

\* the expression handler.orm.<s>.<attr> on an existing Schema namespace
GetAttr(h, s, attr) ==
    LET S == h.orm[s]
    IN  IF attr \in S.names THEN [h |-> h, reflected |-> FALSE, outcome |-> "found"]
        ELSE Schema__getattr__(h, S, s, attr)

\* DatabaseHandler.clear
handler_clear(h) ==
    [h EXCEPT !.meta = <<>>, !.cache = <<>>,
              !.orm = [s \in SchemaIds |-> NoSchemaNs],
              !.objects = [s \in SchemaIds |-> NoSchemaNs]]

\* del namespace[schema][name] of DatabaseHandler.drop_table
DelFromNamespace(ns, schema, name) ==
    LET s == IF schema = None THEN dbo ELSE schema
    IN  IF ns[s].present /\ name \in ns[s].names
        THEN [ns |-> [ns EXCEPT ![s].names = @ \ {name}], err |-> "ok"]
        ELSE [ns |-> ns, err |-> "AttributeError"]

\* DatabaseHandler.drop_table
handler_drop_table(h, table) ==
    LET k == <<EffectiveSchema(table.schema), table.name>>
        h1 == [h EXCEPT !.lv[k] = NoObject, !.meta = MetaRemove(h.meta, table)]
        r1 == DelFromNamespace(h.orm, table.schema, table.name)
        r2 == DelFromNamespace(h.objects, table.schema, table.name)
    IN  IF h.lv[k].kind # "table" THEN Raise(h, "OperationalError")
        ELSE IF r1.err # "ok" THEN Raise(h1, r1.err)
        ELSE IF r2.err # "ok" THEN Raise([h1 EXCEPT !.orm = r1.ns], r2.err)
        ELSE [h1 EXCEPT !.orm = r1.ns, !.objects = r2.ns]

HCur == [lv |-> live, meta |-> meta, cache |-> cache, orm |-> orm, objects |-> objects, err |-> "ok"]

HBecome(h, op, lk) ==
    /\ live' = h.lv
    /\ meta' = h.meta
    /\ cache' = h.cache
    /\ orm' = h.orm
    /\ objects' = h.objects
    /\ err' = h.err
    /\ last' = [op |-> op, table |-> <<0, 0>>]
    /\ lookup' = lk
    /\ UNCHANGED <<tables, views, cache_metadata, cvars, tvars, pvars>>

HExecuteDDL ==
    \E k \in LiveKeys, o \in LiveObjects :
        /\ err = "ok"
        /\ o # live[k]
        /\ NumLive([live EXCEPT ![k] = o]) <= MaxLive
        /\ HBecome([HCur EXCEPT !.lv[k] = o], "other", NoLookup)

HReflect ==
    \E schema \in SchemaIds \cup {None} :
        /\ err = "ok"
        /\ HBecome(reflect(HCur, schema), "reflect", NoLookup)

\* Database.__getattr__: a schema that is not on the namespace yet
HGetSchema ==
    \E s \in SchemaIds :
        /\ err = "ok"
        /\ ~orm[s].present
        /\ HBecome(reflect(HCur, s), "getschema", NoLookup)

HGetAttr ==
    \E s \in SchemaIds, attr \in Attrs :
        /\ err = "ok"
        /\ orm[s].present
        /\ LET r == GetAttr(HCur, s, attr)
           IN  HBecome(r.h, "getattr",
                       [schema |-> s, attr |-> attr, was_present |-> attr \in orm[s].names,
                        reflected |-> r.reflected, outcome |-> r.outcome])

HClear ==
    /\ err = "ok"
    /\ HBecome(handler_clear(HCur), "clear", NoLookup)

HDropTable ==
    \E t \in InMeta(meta) :
        /\ err = "ok"
        /\ HBecome(handler_drop_table(HCur, t), "drop_table", NoLookup)

\* DatabaseHandler.__init__ on an empty cache: reflect() of the default schema
HInit ==
    /\ live \in {lv \in [LiveKeys -> LiveObjects] : NumLive(lv) <= 1}
    /\ LET h == reflect([lv |-> live, meta |-> <<>>, cache |-> <<>>,
                         orm |-> [s \in SchemaIds |-> NoSchemaNs],
                         objects |-> [s \in SchemaIds |-> NoSchemaNs], err |-> "ok"], None)
       IN  meta = h.meta /\ cache = h.cache /\ orm = h.orm /\ objects = h.objects
    /\ tables = EmptySchemas /\ views = EmptySchemas
    /\ cache_metadata = TRUE
    /\ err = "ok"
    /\ last = [op |-> "other", table |-> <<0, 0>>]
    /\ lookup = NoLookup
    /\ CIdle /\ TIdle /\ PIdle

HNext ==
    \/ HExecuteDDL
    \/ HReflect
    \/ HGetSchema
    \/ HGetAttr
    \/ HClear
    \/ HDropTable

SpecHandler == HInit /\ [][HNext]_vars

\* C3: a lookup of a public name that is not on the Schema accessor yet
\* reflects the schema first, so that an object of the live database is
\* returned on this first access, and AttributeError is raised when the
\* name is still absent after the reflection; a name that starts with an
\* underscore never triggers a reflection.
C3_LookupReflectsOnMiss ==
    last.op = "getattr" =>
        /\ (~StartsWithUnderscore(lookup.attr) /\ ~lookup.was_present) =>
              /\ lookup.reflected
              /\ live[<<lookup.schema, lookup.attr>>].kind # "none" => lookup.outcome = "found"
              /\ lookup.attr \notin orm[lookup.schema].names => lookup.outcome = "AttributeError"
        /\ StartsWithUnderscore(lookup.attr) => ~lookup.reflected

(***************************************************************************)
(* MetadataCacheHelper and its Cache (utils.py)                            *)
(***************************************************************************)
MaxDay == 8
DbNames == 1..2
\* MetadataCacheHelper.__init__: maximum_cache_days
DefaultMaxDays == 5
MaxDaysChoices == {DefaultMaxDays - 2, DefaultMaxDays}

\* DateTime.today().delta(days=-n)
DaysBefore(day, n) == day - n

\* MetadataCacheHelper.Cache.__init__
Cache__init__(max_validity_days, day) ==
    [max_age |-> max_validity_days, dob |-> day, databases |-> {}]

Cache__bool__Inclusive(c, day) ==
    c # NoCache /\ c.dob >= DaysBefore(day, c.max_age)

\* MetadataCacheHelper.Cache.__bool__ (None, the contents of a new file, is false)
Cache__bool__(c, day) ==
    c # NoCache /\ c.dob > DaysBefore(day, c.max_age)

\* MetadataCacheHelper._ensure_cache
_ensure_cache(contents, max_days, day) ==
    IF ~Cache__bool__(contents, day) THEN Cache__init__(max_days, day) ELSE contents

\* MetadataCacheHelper.Cache.__contains__
Cache__contains__(c, name) == \E db \in c.databases : db.name = name

\* MetadataCacheHelper.Cache.add_database; the new DataBase holds a new metadata
add_database(c, name, day) ==
    [c EXCEPT !.databases = @ \cup {[name |-> name, born |-> day]}]

\* MetadataCacheHelper._ensure_database: the cache after it
_ensure_database(c, db_name, day) ==
    IF ~Cache__contains__(c, db_name) THEN add_database(c, db_name, day) ELSE c

\* MetadataCacheHelper.Cache.__getitem__
Cache__getitem__(c, key) == CHOOSE db \in c.databases : db.name = key

CBecome(op) ==
    /\ last' = [op |-> op, table |-> <<0, 0>>]
    /\ UNCHANGED <<live, meta, cache, tables, views, cache_metadata, err, hvars, tvars, pvars>>

\* a day passes
NextDay ==
    /\ today < MaxDay
    /\ today' = today + 1
    /\ UNCHANGED <<cache_file, helper_cache, database>>
    /\ CBecome("other")

\* MetadataCacheHelper.load_metadata_from_cache (also run by __init__)
load_metadata_from_cache ==
    \E db_name \in DbNames, max_days \in MaxDaysChoices :
        LET c == _ensure_database(_ensure_cache(cache_file, max_days, today), db_name, today)
        IN  /\ helper_cache' = c
            /\ database' = Cache__getitem__(c, db_name)
            /\ UNCHANGED <<today, cache_file>>
            /\ CBecome("load")

\* MetadataCacheHelper.save_metadata_to_cache
save_metadata_to_cache ==
    /\ helper_cache # NoCache
    /\ cache_file' = helper_cache
    /\ UNCHANGED <<today, helper_cache, database>>
    /\ CBecome("save")

CInit ==
    /\ DbIdle /\ HIdle /\ TIdle /\ PIdle
    /\ today = 0
    /\ cache_file = NoCache
    /\ helper_cache = NoCache
    /\ database = NoDataBase

CNext ==
    \/ NextDay
    \/ load_metadata_from_cache
    \/ save_metadata_to_cache

SpecCache == CInit /\ [][CNext]_vars

\* C4: a stored cache created on day D is reused by _ensure_cache on day T
\* exactly when D is later than T minus its max_validity_days; otherwise it
\* is replaced by a new empty cache dated T (which then holds only the
\* database asked for), so the metadata served is never older than that.
C4_CacheLifetime ==
    [][last'.op = "load" =>
          /\ IF cache_file # NoCache /\ today - cache_file.dob < cache_file.max_age
             THEN /\ helper_cache'.dob = cache_file.dob
                  /\ helper_cache'.max_age = cache_file.max_age
                  /\ cache_file.databases \subseteq helper_cache'.databases
             ELSE /\ helper_cache'.dob = today
                  /\ helper_cache'.databases = {database'}
                  /\ database'.born = today
          /\ today - database'.born < helper_cache'.max_age]_vars

\* a load found a stored cache of exactly max_validity_days days and did
\* not reuse it
C4_Witness ==
    /\ last.op = "load"
    /\ cache_file # NoCache
    /\ today - cache_file.dob = cache_file.max_age
    /\ helper_cache.dob = today

(***************************************************************************)
(* Transaction (sql.py), Alchemy.__enter__/__exit__ and resolve_tran       *)
(* (alchemy.py) on a session                                               *)
(***************************************************************************)
MaxItems == 2
Items == 1..MaxItems

\* a session is the record [pending, durable, calls]
\* Session.commit
commit(ss) == [pending |-> {}, durable |-> ss.durable \cup ss.pending, calls |-> Append(ss.calls, "commit")]
\* Session.rollback
rollback(ss) == [pending |-> {}, durable |-> ss.durable, calls |-> Append(ss.calls, "rollback")]

\* the session at the start of an operation
Session == [pending |-> pending, durable |-> durable, calls |-> <<>>]

\* Transaction.__enter__ / Alchemy.__enter__
Transaction__enter__(ss) == rollback(ss)

Transaction__exit__AlwaysCommits(ss, ex_type) == commit(ss)

\* Transaction.__exit__ / Alchemy.__exit__
Transaction__exit__(ss, ex_type) ==
    IF ex_type = "None" THEN commit(ss) ELSE rollback(ss)

\* str.upper on the characters that occur
UpperChar(c) ==
    CASE c = "c" -> "C" [] c = "o" -> "O" [] c = "m" -> "M" [] c = "i" -> "I"
      [] c = "t" -> "T" [] c = "x" -> "X" [] OTHER -> c

upper(str) == [i \in 1..Len(str) |-> UpperChar(str[i])]

\* the answers input() may return
Answers ==
    {<<"C", "O", "M", "M", "I", "T">>, <<"c", "o", "m", "m", "i", "t">>,
     <<"C", "o", "m", "m", "I", "t">>, <<"C", "O", "M", "M", "I", "T", " ">>,
     <<"C", "O", "M", "M", "I">>, <<"x">>, <<>>}

resolve_tran_CaseSensitive(ss, auto, force_autocommit, user_confirmation) ==
    IF auto \/ force_autocommit THEN [ss |-> commit(ss), asked |-> FALSE]
    ELSE IF user_confirmation = <<"C", "O", "M", "M", "I", "T">>
         THEN [ss |-> commit(ss), asked |-> TRUE]
         ELSE [ss |-> rollback(ss), asked |-> TRUE]

\* Alchemy.resolve_tran: the session after it and whether the user was asked
resolve_tran(ss, auto, force_autocommit, user_confirmation) ==
    IF auto \/ force_autocommit THEN [ss |-> commit(ss), asked |-> FALSE]
    ELSE IF upper(user_confirmation) = <<"C", "O", "M", "M", "I", "T">>
         THEN [ss |-> commit(ss), asked |-> TRUE]
         ELSE [ss |-> rollback(ss), asked |-> TRUE]

Session__execute_CommitsAnyway(ss, item, raises, autocommit_arg) ==
    LET res == [ss EXCEPT !.calls = Append(@, "execute"),
                          !.pending = IF raises THEN @ ELSE @ \cup {item}]
    IN  IF autocommit_arg THEN commit(res) ELSE res

\* Session.execute(statement, autocommit): the statement runs first and an
\* exception it raises leaves the method before the commit
Session__execute(ss, item, raises, autocommit_arg) ==
    LET res == [ss EXCEPT !.calls = Append(@, "execute"),
                          !.pending = IF raises THEN @ ELSE @ \cup {item}]
    IN  IF raises THEN res
        ELSE IF autocommit_arg THEN commit(res) ELSE res

TBecome(ss, op) ==
    /\ pending' = ss.pending
    /\ durable' = ss.durable
    /\ calls' = ss.calls
    /\ last' = [op |-> op, table |-> <<0, 0>>]
    /\ UNCHANGED <<live, meta, cache, tables, views, cache_metadata, err, hvars, cvars, pvars>>

\* Model.insert(): session.add
Work ==
    \E i \in Items :
        /\ i \notin pending
        /\ TBecome([Session EXCEPT !.pending = @ \cup {i}], "work")
        /\ UNCHANGED <<in_block, autocommit, tran>>

Enter ==
    /\ ~in_block
    /\ in_block' = TRUE
    /\ TBecome(Transaction__enter__(Session), "enter")
    /\ UNCHANGED <<autocommit, tran>>

Exit ==
    \E ex_type \in {"None", "Exception"} :
        /\ in_block
        /\ in_block' = FALSE
        /\ TBecome(Transaction__exit__(Session, ex_type), "exit")
        /\ tran' = [NoTran EXCEPT !.ex_type = ex_type, !.had = pending]
        /\ UNCHANGED autocommit

ResolveTran ==
    \E force \in BOOLEAN, answer \in Answers :
        LET r == resolve_tran(Session, autocommit, force, answer)
        IN  /\ TBecome(r.ss, "resolve_tran")
            /\ tran' = [ex_type |-> "None", force |-> force, asked |-> r.asked,
                        answer |-> IF r.asked THEN answer ELSE <<>>, had |-> pending]
            /\ UNCHANGED <<in_block, autocommit>>

SetAutocommit ==
    /\ autocommit' = ~autocommit
    /\ TBecome(Session, "other")
    /\ UNCHANGED <<in_block, tran>>

\* a statement run through Session.execute; tran records what the statement
\* raised (ex_type) and the autocommit argument (force)
Execute ==
    \E item \in Items, raises \in BOOLEAN, autocommit_arg \in BOOLEAN :
        /\ TBecome(Session__execute(Session, item, raises, autocommit_arg), "execute")
        /\ tran' = [NoTran EXCEPT !.ex_type = IF raises THEN "Exception" ELSE "None",
                                  !.force = autocommit_arg,
                                  !.had = IF raises THEN pending ELSE pending \cup {item}]
        /\ UNCHANGED <<in_block, autocommit>>

TInit ==
    /\ DbIdle /\ HIdle /\ CIdle /\ PIdle
    /\ pending = {} /\ durable = {}
    /\ in_block = FALSE
    /\ autocommit \in BOOLEAN
    /\ calls = <<>>
    /\ tran = NoTran

TNext ==
    \/ Work
    \/ Enter
    \/ Exit
    \/ ResolveTran
    \/ SetAutocommit
    \/ Execute

SpecTran == TInit /\ [][TNext]_vars

\* C9: entering the context manager rolls back what was pending; leaving
\* it issues exactly one call on the session, commit if and only if the
\* block raised nothing and rollback otherwise, so that the work of a block
\* that completes is durable and the work of a block that raises is not.
C9_ContextManager ==
    [][/\ last'.op = "enter" => calls' = <<"rollback">> /\ pending' = {} /\ durable' = durable
       /\ last'.op = "exit" =>
             /\ Len(calls') = 1
             /\ calls' = <<"commit">> <=> tran'.ex_type = "None"
             /\ calls' = <<"rollback">> <=> tran'.ex_type # "None"
             /\ pending' = {}
             /\ durable' = IF tran'.ex_type = "None" THEN durable \cup pending ELSE durable]_vars

\* a block with work in it was left by an exception and its work is gone
C9_Witness ==
    /\ last.op = "exit"
    /\ tran.ex_type = "Exception"
    /\ tran.had # {}
    /\ tran.had \cap durable = {}

\* letters of the answer compared without regard to case
LowerChar(c) ==
    CASE c = "C" -> "c" [] c = "O" -> "o" [] c = "M" -> "m" [] c = "I" -> "i"
      [] c = "T" -> "t" [] c = "X" -> "x" [] OTHER -> c
EqualsIgnoringCase(a, b) ==
    /\ Len(a) = Len(b)
    /\ \A i \in 1..Len(a) : LowerChar(a[i]) = LowerChar(b[i])

\* C10: resolve_tran ends the transaction with exactly one commit or one
\* rollback; it commits without asking when autocommit or force_autocommit
\* is true, and otherwise asks and commits if and only if the answer is
\* COMMIT in any letter case.
C10_ResolveTran ==
    last.op = "resolve_tran" =>
        /\ calls \in {<<"commit">>, <<"rollback">>}
        /\ (autocommit \/ tran.force) => calls = <<"commit">> /\ ~tran.asked
        /\ ~(autocommit \/ tran.force) =>
              /\ tran.asked
              /\ calls = <<"commit">> <=> EqualsIgnoringCase(tran.answer, <<"c", "o", "m", "m", "i", "t">>)

\* the user was asked and answered commit in lower case, which committed
C10_Witness ==
    /\ last.op = "resolve_tran"
    /\ tran.asked
    /\ tran.answer = <<"c", "o", "m", "m", "i", "t">>
    /\ calls = <<"commit">>

\* C11: Session.execute commits only when autocommit=True was passed and the
\* statement completed: the commit then follows the statement, what was
\* pending becomes durable, and in every other case (the statement raised,
\* or autocommit is false) no commit is issued and nothing becomes durable.
C11_ExecuteAutocommit ==
    [][last'.op = "execute" =>
         IF tran'.force /\ tran'.ex_type = "None"
         THEN calls' = <<"execute", "commit">> /\ durable' = durable \cup tran'.had /\ pending' = {}
         ELSE calls' = <<"execute">> /\ durable' = durable /\ pending' = tran'.had]_vars

\* a statement run with autocommit=True raised while work was pending, and
\* nothing was committed
C11_Witness ==
    /\ last.op = "execute"
    /\ tran.force /\ tran.ex_type = "Exception"
    /\ tran.had # {} /\ pending = tran.had
    /\ calls = <<"execute">>

(***************************************************************************)
(* Model.update / Model.clone (custom/model.py, custom.py)                 *)
(***************************************************************************)
MaxVal == 2
MaxArgs == 2
MaxKw == 1
Vals == 1..MaxVal

\* a mapped class of the kind AutoModel declares: __table__.columns in order
columns == <<"id", "name", "active">>
\* __table__.primary_key.columns
primary_key == {"id"}
ColumnNames == {columns[i] : i \in 1..Len(columns)}
\* the keys of __mapper__.all_orm_descriptors
all_orm_descriptors == ColumnNames
\* names a caller may write, one of which the class does not have
KeyNames == {"id", "name", "zz"}
\* a key of the positional dict: a string, or an InstrumentedAttribute with its .key
StrKeys == {[kind |-> "str", str |-> n] : n \in KeyNames}
\* the class attribute the caller passes
AttrKeys == {[kind |-> "attr", key |-> "name"]}

\* an insertion-ordered dict with at most n entries: items [key, val], keys distinct
Dicts(K, n) ==
    UNION {{d \in [1..m -> [key : K, val : Vals]] :
                \A i, j \in 1..m : d[i].key = d[j].key => i = j} : m \in 0..n}

\* dict[k] = v on a dict kept as a function of its keys
DictSet(d, k, v) == [x \in DOMAIN d \cup {k} |-> IF x = k THEN v ELSE d[x]]

\* dict.update(items) / a dict comprehension: the items are stored in order
RECURSIVE DictUpdate(_, _)
DictUpdate(d, items) ==
    IF items = <<>> THEN d
    ELSE DictUpdate(DictSet(d, Head(items).key, Head(items).val), Tail(items))

\* (name if isinstance(name, str) else name.key)
KeyOf(name) == IF name.kind = "str" THEN name.str ELSE name.key

\* type(self)(**kwargs): a new object that is in no session
Model__init__(kwargs) ==
    [attrs |-> [c \in ColumnNames |-> IF c \in DOMAIN kwargs THEN kwargs[c] ELSE None],
     session |-> FALSE]

update_SkipsUnknown(obj, argdeltas, update_kwargs) ==
    LET clean_argdeltas ==
            IF argdeltas.none THEN <<>>
            ELSE DictUpdate(<<>>, [i \in 1..Len(argdeltas.items) |->
                     [key |-> KeyOf(argdeltas.items[i].key), val |-> argdeltas.items[i].val]])
        updates == DictUpdate(clean_argdeltas, update_kwargs)
        intersection == DOMAIN clean_argdeltas \cap {update_kwargs[i].key : i \in 1..Len(update_kwargs)}
    IN  IF intersection # {}
        THEN [raised |-> "AttributeError", obj |-> obj, is_self |-> FALSE]
        ELSE [raised |-> "None",
              obj |-> [obj EXCEPT !.attrs = [c \in ColumnNames |->
                           IF c \in DOMAIN updates THEN updates[c] ELSE obj.attrs[c]]],
              is_self |-> TRUE]

\* BaseModel.update / Model.update: the object after the call, what was raised
\* and whether the object itself was returned
update(obj, argdeltas, update_kwargs) ==
    LET clean_argdeltas ==
            IF argdeltas.none THEN <<>>
            ELSE DictUpdate(<<>>, [i \in 1..Len(argdeltas.items) |->
                     [key |-> KeyOf(argdeltas.items[i].key), val |-> argdeltas.items[i].val]])
        updates == DictUpdate(clean_argdeltas, update_kwargs)
        difference == DOMAIN updates \ all_orm_descriptors
        intersection == DOMAIN clean_argdeltas \cap {update_kwargs[i].key : i \in 1..Len(update_kwargs)}
    IN  IF difference # {}
        THEN [raised |-> "AttributeError", obj |-> obj, is_self |-> FALSE]
        ELSE IF intersection # {}
        THEN [raised |-> "AttributeError", obj |-> obj, is_self |-> FALSE]
        ELSE [raised |-> "None",
              obj |-> [obj EXCEPT !.attrs = [c \in ColumnNames |->
                           IF c \in DOMAIN updates THEN updates[c] ELSE obj.attrs[c]]],
              is_self |-> TRUE]

clone_CopiesPrimaryKey(obj, argdeltas, update_kwargs) ==
    LET r == update(Model__init__(obj.attrs), argdeltas, update_kwargs)
    IN  [r EXCEPT !.is_self = FALSE]

\* BaseModel.clone / Model.clone
clone(obj, argdeltas, update_kwargs) ==
    LET valid_cols == SelectSeq(columns, LAMBDA c : c \notin primary_key)
        kwargs == [c \in {valid_cols[i] : i \in 1..Len(valid_cols)} |-> obj.attrs[c]]
        r == update(Model__init__(kwargs), argdeltas, update_kwargs)
    IN  [r EXCEPT !.is_self = FALSE]

ArgDeltas ==
    {[none |-> TRUE, items |-> <<>>]}
        \cup {[none |-> FALSE, items |-> d] : d \in Dicts(StrKeys \cup AttrKeys, MaxArgs)}
UpdateKwargs == Dicts(KeyNames, MaxKw)
NoCall == [argdeltas |-> [none |-> TRUE, items |-> <<>>], update_kwargs |-> <<>>]
NoRet == [op |-> "none", raised |-> "None", obj |-> <<>>, is_self |-> FALSE]

MBecome(op, r, argdeltas, update_kwargs) ==
    /\ arg' = [argdeltas |-> argdeltas, update_kwargs |-> update_kwargs]
    /\ ret' = [op |-> op, raised |-> r.raised, obj |-> r.obj, is_self |-> r.is_self]
    /\ UNCHANGED <<dbvars, hvars, cvars, tvars>>

Update ==
    \E argdeltas \in ArgDeltas, update_kwargs \in UpdateKwargs :
        /\ ret.op = "none"
        /\ LET r == update(self, argdeltas, update_kwargs)
           IN  /\ self' = r.obj
               /\ MBecome("update", r, argdeltas, update_kwargs)

Clone ==
    \E argdeltas \in ArgDeltas, update_kwargs \in UpdateKwargs :
        /\ ret.op = "none"
        /\ self' = self
        /\ MBecome("clone", clone(self, argdeltas, update_kwargs), argdeltas, update_kwargs)

\* BaseModel.insert: session.add(self)
Insert ==
    /\ ret.op = "none"
    /\ ~self.session
    /\ self' = [self EXCEPT !.session = TRUE]
    /\ MBecome("insert", [raised |-> "None", obj |-> self', is_self |-> TRUE],
               NoCall.argdeltas, NoCall.update_kwargs)

\* the caller takes the result; the object is ready for the next call
Return ==
    /\ ret.op # "none"
    /\ self' = self /\ arg' = NoCall /\ ret' = NoRet
    /\ UNCHANGED <<dbvars, hvars, cvars, tvars>>

MInit ==
    /\ DbIdle /\ HIdle /\ CIdle /\ TIdle
    /\ self \in {[attrs |-> a, session |-> FALSE] :
                    a \in {f \in [ColumnNames -> {None} \cup Vals] : f["id"] # None}}
    /\ arg = NoCall
    /\ ret = NoRet

MNext ==
    \/ Update
    \/ Clone
    \/ Insert
    \/ Return

SpecModel == MInit /\ [][MNext]_vars

\* what the caller listed: every (name, value) of the positional dict, taken by
\* its key, and of the keyword arguments
Listed12(a) ==
    {<<KeyOf(a.argdeltas.items[i].key), a.argdeltas.items[i].val>> : i \in 1..Len(a.argdeltas.items)}
        \cup {<<a.update_kwargs[i].key, a.update_kwargs[i].val>> : i \in 1..Len(a.update_kwargs)}
ListedKeys(a) == {p[1] : p \in Listed12(a)}
GivenTwice(a) ==
    \/ \E i, j \in 1..Len(a.argdeltas.items) :
          i # j /\ KeyOf(a.argdeltas.items[i].key) = KeyOf(a.argdeltas.items[j].key)
    \/ \E i \in 1..Len(a.argdeltas.items), j \in 1..Len(a.update_kwargs) :
          KeyOf(a.argdeltas.items[i].key) = a.update_kwargs[j].key

\* C12: Model.update raises AttributeError, and changes nothing, whenever a
\* key of the positional dict (string or instrumented attribute, by its key)
\* or of the keyword arguments is not a mapped descriptor of the model; when
\* every key is valid and none is given twice, each listed attribute holds
\* its new value afterwards, the others keep theirs, and the object itself is
\* returned.
C12_UpdateValidatesKeys ==
    [][ret'.op = "update" =>
         /\ (ListedKeys(arg') \ all_orm_descriptors # {}) =>
                ret'.raised = "AttributeError" /\ self' = self
         /\ (ListedKeys(arg') \subseteq all_orm_descriptors /\ ~GivenTwice(arg')) =>
                /\ ret'.raised = "None"
                /\ ret'.is_self /\ ret'.obj = self'
                /\ \A p \in Listed12(arg') : self'.attrs[p[1]] = p[2]
                /\ \A c \in ColumnNames \ ListedKeys(arg') : self'.attrs[c] = self.attrs[c]
                /\ self'.session = self.session]_vars

\* an update given an instrumented attribute and a keyword, both valid, was applied
C12_Witness ==
    /\ ret.op = "update" /\ ret.raised = "None"
    /\ Len(arg.argdeltas.items) = 1 /\ arg.argdeltas.items[1].key.kind = "attr"
    /\ Len(arg.update_kwargs) = 1
    /\ \A p \in Listed12(arg) : self.attrs[p[1]] = p[2]

\* C13: Model.clone returns a new object of the class that is in no session,
\* in which every column that is not of the primary key has the value it has
\* in the original unless the updates give it one, in which no primary-key
\* column is copied from the original, and the original is left unchanged.
C13_CloneCopiesNonKeyColumns ==
    [][ret'.op = "clone" =>
         /\ self' = self
         /\ ret'.raised = "None" =>
              /\ ~ret'.is_self
              /\ ~ret'.obj.session
              /\ \A c \in ColumnNames :
                    IF c \in ListedKeys(arg')
                    THEN <<c, ret'.obj.attrs[c]>> \in Listed12(arg')
                    ELSE IF c \in primary_key THEN ret'.obj.attrs[c] = None
                    ELSE ret'.obj.attrs[c] = self.attrs[c]]_vars

\* an object in a session, with values in its columns, was cloned with one
\* column overridden
C13_Witness ==
    /\ ret.op = "clone" /\ ret.raised = "None"
    /\ self.session
    /\ \A c \in ColumnNames : self.attrs[c] # None
    /\ ListedKeys(arg) = {"name"}
    /\ ret.obj.attrs["id"] = None
    /\ ret.obj.attrs["active"] = self.attrs["active"]
    /\ ret.obj.attrs["name"] # self.attrs["name"]

(***************************************************************************)
(* Query.vector (custom/query.py, custom.py)                               *)
(***************************************************************************)
MaxCols == 2
MaxRows == 3

\* what Query.all() gives for a query of ncols column expressions: a list of
\* rows, each with one value per column
Results(ncols) == UNION {[1..n -> [1..ncols -> Vals]] : n \in 0..MaxRows}
Queries == UNION {{[ncols |-> k, rows |-> rs] : rs \in Results(k)} : k \in 1..MaxCols}

\* Query.vector
vector(q) ==
    LET vals == q.rows
    IN  IF \A i \in 1..Len(vals) : Len(vals[i]) = 1
        THEN [raised |-> "None", value |-> [i \in 1..Len(vals) |-> vals[i][1]]]
        ELSE [raised |-> "RuntimeError", value |-> <<>>]

QBecome(op, r) ==
    /\ ret' = [op |-> op, raised |-> r.raised, value |-> r.value]
    /\ arg' = arg
    /\ UNCHANGED <<dbvars, hvars, cvars, tvars>>

\* Sql.query(*entities): a new query and the rows the database holds for it
SqlQuery ==
    \E q \in Queries :
        /\ self' = q
        /\ QBecome("query", [raised |-> "None", value |-> <<>>])

Vector ==
    /\ ret.op = "query"
    /\ self' = self
    /\ QBecome("vector", vector(self))

QInit ==
    /\ DbIdle /\ HIdle /\ CIdle /\ TIdle
    /\ self \in Queries
    /\ arg = <<>>
    /\ ret = [op |-> "query", raised |-> "None", value |-> <<>>]

QNext ==
    \/ SqlQuery
    \/ Vector

SpecQuery == QInit /\ [][QNext]_vars

\* C14: Query.vector returns the single value of each row in row order when
\* the query selects one column (the empty list for an empty result), and
\* raises RuntimeError when the query selects more than one column.
C14_VectorSingleColumn ==
    ret.op = "vector" =>
        /\ self.ncols = 1 =>
              /\ ret.raised = "None"
              /\ Len(ret.value) = Len(self.rows)
              /\ \A i \in 1..Len(self.rows) : ret.value[i] = self.rows[i][1]
        /\ self.ncols > 1 => ret.raised = "RuntimeError"

(***************************************************************************)
(* Sql.orm_to_frame / Alchemy.orm_to_frame                                 *)
(***************************************************************************)
MaxObjs == 2

\* two mapped classes and type(obj).__table__.columns of each
ModelClasses == {"Parent", "Child"}
TableColumns(cls) == IF cls = "Parent" THEN <<"id", "name">> ELSE <<"id", "active">>
ColumnSet(cls) == {TableColumns(cls)[i] : i \in 1..Len(TableColumns(cls))}
MappedObjects == UNION {{[type |-> cls, attrs |-> a] : a \in [ColumnSet(cls) -> Vals]} : cls \in ModelClasses}
\* what a caller passes: a list of mapped objects, or one mapped object
OrmObjects ==
    {[is_list |-> TRUE, items |-> l] : l \in UNION {[1..n -> MappedObjects] : n \in 0..MaxObjs}}
        \cup {[is_list |-> FALSE, items |-> <<o>>] : o \in MappedObjects}

\* Sql.orm_to_frame
orm_to_frame(x) ==
    LET orm_objects == x.items   \* a single object is wrapped in a list
    IN  IF ~(\A i \in 1..Len(orm_objects) : orm_objects[1].type = orm_objects[i].type)
        THEN [raised |-> "TypeError", columns |-> <<>>, rows |-> <<>>]
        ELSE IF Len(orm_objects) = 0
        THEN [raised |-> "IndexError", columns |-> <<>>, rows |-> <<>>]   \* orm_objects[0]
        ELSE LET cols == TableColumns(orm_objects[1].type)
                 vals == [i \in 1..Len(orm_objects) |->
                              [k \in 1..Len(cols) |-> orm_objects[i].attrs[cols[k]]]]
             IN  [raised |-> "None", columns |-> cols, rows |-> vals]

NoFrame == [op |-> "none", raised |-> "None", columns |-> <<>>, rows |-> <<>>]

\* the caller collects mapped objects
Collect ==
    /\ ret.op # "none"
    /\ arg' \in OrmObjects
    /\ ret' = NoFrame
    /\ UNCHANGED <<self, dbvars, hvars, cvars, tvars>>

OrmToFrame ==
    /\ ret.op = "none"
    /\ ret' = [op |-> "orm_to_frame"] @@ orm_to_frame(arg)
    /\ UNCHANGED <<self, arg, dbvars, hvars, cvars, tvars>>

OInit ==
    /\ DbIdle /\ HIdle /\ CIdle /\ TIdle
    /\ self = <<>>
    /\ arg \in OrmObjects
    /\ ret = NoFrame

ONext ==
    \/ Collect
    \/ OrmToFrame

SpecOrmFrame == OInit /\ [][ONext]_vars

\* C15: for every list of mapped objects passed, and for a single object
\* taken as a list of one, orm_to_frame raises TypeError when the objects are
\* not all of one type, and otherwise returns a frame with one row per object
\* in list order and one column per column of the mapped table.
C15_OrmToFrame ==
    ret.op = "orm_to_frame" =>
        IF \E i, j \in 1..Len(arg.items) : arg.items[i].type # arg.items[j].type
        THEN ret.raised = "TypeError"
        ELSE /\ ret.raised = "None"
             /\ Len(ret.rows) = Len(arg.items)
             /\ \A i \in 1..Len(arg.items) :
                   /\ ret.columns = TableColumns(arg.items[i].type)
                   /\ \A k \in 1..Len(ret.columns) :
                         ret.rows[i][k] = arg.items[i].attrs[ret.columns[k]]

(***************************************************************************)
(* Relationship (custom.py)                                                *)
(***************************************************************************)
\* Relationship.FK_SUFFIX; a formatted name is kept as the tuple of its parts
FK_SUFFIX == "_id"

\* the mapped models a relationship may point at, by __table__.name; each has
\* the single primary-key column id
Targets == {"position", "company", "employee"}
\* the names of the classes being declared
ClassNames == {"Employee", "TeamLead", "Company"}
BackrefNames == {"None", "staff", "boss"}
Associations == {"None", "links"}

\* Str(name).case.snake() and .case.plural() on the names that occur
snake(name) ==
    CASE name = "Employee" -> "employee" [] name = "TeamLead" -> "team_lead"
      [] name = "Company" -> "company"
plural(name) ==
    CASE name = "employee" -> "employees" [] name = "team_lead" -> "team_leads"
      [] name = "company" -> "companies"

\* Relationship._TargetEntity
Relationship_TargetEntity(model) ==
    [name |-> model, pk |-> <<model, "id">>, fk |-> <<model, FK_SUFFIX>>]

\* Relationship._FutureEntity
Relationship_FutureEntity(name) ==
    [name |-> snake(name), plural |-> plural(snake(name)), pk |-> <<snake(name), "id">>]

\* Relationship.__init__: the first statement sets target, kind, backref_name
\* and association; the second reads self.backref_kwargs, an attribute the
\* object does not have at that point
Relationship__init__(target, kind, backref_name, association) ==
    LET obj == [target |-> Relationship_TargetEntity(target), kind |-> kind,
                backref_name |-> backref_name, association |-> association]
    IN  IF "backref_kwargs" \notin DOMAIN obj
        THEN [raised |-> "AttributeError", obj |-> obj]
        ELSE [raised |-> "None", obj |-> obj]

NoColumn == [present |-> FALSE, name |-> <<>>, references |-> <<>>, unique |-> FALSE]
NoRelationship == [present |-> FALSE, target |-> "None", secondary |-> "None", backref |-> "None", uselist |-> TRUE]

\* Relationship._build_fk_columns: the column added to the namespace of the class
_build_fk_columns(rel) ==
    IF rel.kind = "many_to_one"
    THEN [present |-> TRUE, name |-> rel.target.fk, references |-> rel.target.pk, unique |-> FALSE]
    ELSE IF rel.kind = "one_to_one"
    THEN [present |-> TRUE, name |-> rel.target.fk, references |-> rel.target.pk, unique |-> TRUE]
    ELSE NoColumn

\* Relationship._build_association_table
_build_association_table(rel, this) ==
    IF rel.association # "None" THEN rel.association
    ELSE "association"

\* Relationship._build_relationship: the relationship set on the namespace
_build_relationship(rel, this) ==
    LET backref_name ==
            IF rel.backref_name # "None" THEN rel.backref_name
            ELSE IF rel.kind = "one_to_one" THEN this.name
            ELSE this.plural
    IN  [present |-> TRUE, target |-> rel.target.name,
         secondary |-> IF rel.kind = "many_to_many" THEN _build_association_table(rel, this) ELSE "None",
         backref |-> backref_name,
         uselist |-> rel.kind # "one_to_one"]

\* Relationship.build
build(rel, name) ==
    LET this == Relationship_FutureEntity(name)
    IN  [fk |-> _build_fk_columns(rel), rel |-> _build_relationship(rel, this)]

\* a class statement with one relationship in its body: the Relationship is
\* constructed, then ModelMeta.__new__ builds it into the namespace
DeclareWith(target, kind, name, backref_name, association) ==
    LET r == Relationship__init__(target, kind, backref_name, association)
    IN  /\ arg' = [target |-> target, kind |-> kind, name |-> name,
                   backref_name |-> backref_name, association |-> association]
        /\ ret' = IF r.raised # "None"
                  THEN [op |-> "declare", raised |-> r.raised, fk |-> NoColumn, rel |-> NoRelationship]
                  ELSE [op |-> "declare", raised |-> "None"] @@ build(r.obj, name)
        /\ UNCHANGED <<self, dbvars, hvars, cvars, tvars>>

\* Relationship.One.to_one
OneToOne ==
    \E target \in Targets, name \in ClassNames, backref_name \in BackrefNames :
        DeclareWith(target, "one_to_one", name, backref_name, "None")

\* Relationship.Many.to_one
ManyToOne ==
    \E target \in Targets, name \in ClassNames, backref_name \in BackrefNames :
        DeclareWith(target, "many_to_one", name, backref_name, "None")

\* Relationship.Many.to_many
ManyToMany ==
    \E target \in Targets, name \in ClassNames, backref_name \in BackrefNames,
       association \in Associations :
        DeclareWith(target, "many_to_many", name, backref_name, association)

RInit ==
    /\ DbIdle /\ HIdle /\ CIdle /\ TIdle
    /\ self = <<>>
    /\ arg = <<>>
    /\ ret = [op |-> "none", raised |-> "None", fk |-> NoColumn, rel |-> NoRelationship]

RNext ==
    \/ OneToOne
    \/ ManyToOne
    \/ ManyToMany

SpecRelationship == RInit /\ [][RNext]_vars

\* C18: declaring a Relationship on a model builds the foreign key for it:
\* Many.to_one adds the column <target table>_id referencing the target's
\* primary key, One.to_one adds that column with a unique constraint and a
\* backref that is not a list, Many.to_many adds no foreign-key column and
\* links through an association table; the backref is named by backref_name
\* when one is given, else by the snake-cased name of the declaring model
\* for one-to-one and by its plural for the other kinds.
C18_RelationshipBuildsForeignKey ==
    ret.op = "declare" =>
        /\ ret.raised = "None"
        /\ ret.rel.present /\ ret.rel.target = arg.target
        /\ arg.kind = "many_to_one" =>
              /\ ret.fk.present /\ ret.fk.name = <<arg.target, "_id">>
              /\ ret.fk.references = <<arg.target, "id">> /\ ~ret.fk.unique
              /\ ret.rel.secondary = "None"
        /\ arg.kind = "one_to_one" =>
              /\ ret.fk.present /\ ret.fk.name = <<arg.target, "_id">>
              /\ ret.fk.references = <<arg.target, "id">> /\ ret.fk.unique
              /\ ~ret.rel.uselist
        /\ arg.kind = "many_to_many" => ~ret.fk.present /\ ret.rel.secondary # "None"
        /\ ret.rel.backref =
              IF arg.backref_name # "None" THEN arg.backref_name
              ELSE IF arg.kind = "one_to_one" THEN snake(arg.name)
              ELSE plural(snake(arg.name))

====
